---- MODULE Spec2Model ----
(***************************************************************************)
(* Two independent scripts of the repository:                              *)
(*   deduplicate.py   - download_files: the sequential batch downloader    *)
(*                      with its name sanitizers, logs and zip archive;    *)
(*   undersampling.py - resample_dataset: the class rebalancer.            *)
(* Strings are sequences of one-character strings, so that the regular     *)
(* expressions of the source can be computed character by character.       *)
(***************************************************************************)
EXTENDS Integers, Sequences, FiniteSets, TLC

VARIABLES
    \* ---- deduplicate.py : download_files ----
    manifest,        \* df: the rows of the uploaded table, in order
    index,           \* number of rows the for-loop has consumed
    download_count,  \* the running success counter
    responses,       \* what requests.get answered, one entry per consumed row
    dirs,            \* directories that exist under base_download_folder
    files,           \* downloaded files under base_download_folder: [path, content]
    log_log,         \* lines of log.log
    log_csv,         \* rows of log.csv
    error_log,       \* lines of error.log
    error_csv,       \* rows of error.csv
    progress,        \* values the progress bar has taken, as <<count, total>>
    zip_buffer,      \* the archive: [returned, names]
    pc,              \* position in download_files
    \* ---- deduplicate.py : the sanitizers as pure functions ----
    san,             \* [stage, input, folder, cleaned, file]
    \* ---- undersampling.py : resample_dataset ----
    rs               \* the whole state of one resample_dataset call

vars == <<manifest, index, download_count, responses, dirs, files, log_log,
          log_csv, error_log, error_csv, progress, zip_buffer, pc, san, rs>>

dlvars == <<manifest, index, download_count, responses, dirs, files, log_log,
            log_csv, error_log, error_csv, progress, zip_buffer, pc>>

(***************************************************************************)
(* Bounds of the model.                                                    *)
(***************************************************************************)
MaxRows == 3          \* longest manifest
MaxInputLen == 3      \* longest enumerated sanitizer input
MaxTableRows == 3     \* longest enumerated dataset table

(***************************************************************************)
(* Characters.                                                             *)
(***************************************************************************)
Min(a, b) == IF a < b THEN a ELSE b

Whitespace == {" ", "\t", "\n"}

Letters == {"a", "b", "g", "h", "l", "m", "n", "o", "r", "t", "x", "z",
            "H", "L", "M", "T"}

DigitChars == {"0", "1", "2", "3", "4", "5", "6", "7", "8", "9"}

\* \w of the regular expressions
WordChars == Letters \cup DigitChars \cup {"_"}

\* the float NaN pandas puts in an empty cell; no string is equal to it
NaN == <<"NaN">>

\* str(name)
Str(x) == IF x = NaN THEN <<"n", "a", "n">> ELSE x

\* the character class of safe_folder_name: [<>:"/\\|?*\s*\.\.{1,}]
FolderClass == {"<", ">", ":", "\"", "/", "\\", "|", "?", "*", ".", "{", "1",
                ",", "}"} \cup Whitespace

\* the character class of safe_filename: [!@#$%^&*()_+\-=\[\]{}|\\:;"\'<>,/?]
FileClass == {"!", "@", "#", "$", "%", "^", "&", "*", "(", ")", "_", "+", "-",
              "=", "[", "]", "{", "}", "|", "\\", ":", ";", "\"", "'", "<",
              ">", ",", "/", "?"}

\* re.sub(class, '_', s)
SubClass(class, s) == [i \in 1..Len(s) |-> IF s[i] \in class THEN "_" ELSE s[i]]

RECURSIVE LStripSet(_, _)
LStripSet(s, set) ==
    IF s # <<>> /\ Head(s) \in set THEN LStripSet(Tail(s), set) ELSE s

RECURSIVE RStripSet(_, _)
RStripSet(s, set) ==
    IF s # <<>> /\ s[Len(s)] \in set
    THEN RStripSet(SubSeq(s, 1, Len(s) - 1), set)
    ELSE s

\* re.sub(r'^\.+|\.+$', '', s): '$' matches at the end and before a final newline
StripDots(s) ==
    LET a == LStripSet(s, {"."})
    IN  IF a # <<>> /\ a[Len(a)] = "\n"
        THEN RStripSet(SubSeq(a, 1, Len(a) - 1), {"."}) \o <<"\n">>
        ELSE RStripSet(a, {"."})

\* str.strip()
Strip(s) == RStripSet(LStripSet(s, Whitespace), Whitespace)

MaxNameLen == 255

safe_folder_name(name) ==
    LET a == SubClass(FolderClass, Str(name))
        b == StripDots(a)
    IN  SubSeq(b, 1, Min(Len(b), MaxNameLen))

\* positions where r'\.(\w+)' can match
ExtStarts(file) ==
    {i \in 1..(Len(file) - 1) : file[i] = "." /\ file[i + 1] \in WordChars}

\* last position of the greedy run of \w that starts at position i
WordRunEnd(file, i) ==
    CHOOSE j \in i..Len(file) :
        /\ \A k \in i..j : file[k] \in WordChars
        /\ j = Len(file) \/ file[j + 1] \notin WordChars

\* clean_file_name on a string (a non-string argument raises TypeError)
clean_file_name(file) ==
    IF ExtStarts(file) = {}
    THEN file
    ELSE LET st == CHOOSE i \in ExtStarts(file) : \A j \in ExtStarts(file) : i <= j
         IN  SubSeq(file, 1, WordRunEnd(file, st + 1))

safe_filename(file) == SubClass(FileClass, Str(file))

Lower(c) ==
    CASE c = "H" -> "h"
      [] c = "T" -> "t"
      [] c = "M" -> "m"
      [] c = "L" -> "l"
      [] OTHER -> c

HtmlTag == <<"<", "h", "t", "m", "l">>

\* re.search(r'<html', content, re.IGNORECASE)
is_html(content) ==
    \E i \in 1..(Len(content) - 4) :
        \A k \in 1..5 : Lower(content[i + k - 1]) = HtmlTag[k]

RECURSIVE DigitsOf(_)
DigitsOf(n) ==
    LET d == <<"0", "1", "2", "3", "4", "5", "6", "7", "8", "9">>[(n % 10) + 1]
    IN  IF n < 10 THEN <<d>> ELSE Append(DigitsOf(n \div 10), d)

RECURSIVE PadLeft(_, _)
PadLeft(s, w) == IF Len(s) >= w THEN s ELSE PadLeft(<<" ">> \o s, w)

\* f"{download_count+1:5d}_{safe_folder_name(title)}"
title_folder(count, title) ==
    PadLeft(DigitsOf(count + 1), 5) \o <<"_">> \o safe_folder_name(title)

\* os.path.join: an empty component adds no path element
JoinPath(parts) == SelectSeq(parts, LAMBDA p : p # <<>>)

(***************************************************************************)
(* deduplicate.py : the inputs of download_files.                          *)
(***************************************************************************)
Row(org, title, file, url) ==
    [organization |-> org, title |-> title, file_name |-> file,
     file_download_link |-> url]

UrlU == <<"h", "t", "t", "/", "a">>
UrlV == <<"h", "t", "t", "/", "b">>
FileTxt == <<"a", ".", "t", "x", "t">>

\* the rows a manifest is made of
RowPool ==
    { Row(<<"o">>, <<"t">>, FileTxt, UrlU),
      Row(<<"o", "/", "x">>, <<"t", ".", "1">>, <<".", "t", "x", "t", ".", "g", "z">>, UrlU),
      Row(<<"o">>, <<"t">>, <<".">>, UrlV),
      Row(<<"o">>, <<"t">>, NaN, UrlU),
      Row(<<"o">>, <<"t">>, FileTxt, <<" ", "\t">>),
      Row(<<"o">>, <<"t">>, FileTxt, NaN) }

Manifests == UNION {[1..n -> RowPool] : n \in 0..MaxRows}

PdfBytes == <<"%", "P", "D", "F">>
Payloads ==
    { PdfBytes,
      <<"<", "h", "t", "m", "l", ">">>,
      <<"x", "<", "H", "T", "m", "l">>,
      <<"<", "h", "t", "m">> }

\* the body of an error answer
NotFoundPage == <<"4", "0", "4">>

NoRequest == [exc |-> "norequest", status |-> 0, content |-> <<>>]

\* what requests.get(url, stream=True) can do
Responses ==
    {[exc |-> "ConnectionError", status |-> 0, content |-> <<>>]}
    \cup {[exc |-> "none", status |-> 404, content |-> NotFoundPage]}
    \cup {[exc |-> "none", status |-> 200, content |-> c] : c \in Payloads}

(***************************************************************************)
(* deduplicate.py : download_files.                                        *)
(***************************************************************************)
InitialDownloadCount == 2087

LogPaths == {<<<<"log.log">>>>, <<<<"log.csv">>>>, <<<<"error.log">>>>,
             <<<<"error.csv">>>>}

\* pd.isna(url) or not url.strip()
BlankUrl(url) == url = NaN \/ Strip(url) = <<>>

\* raise_for_status that lets client errors through
RaisesForStatusServerOnly(status) == status >= 500 /\ status < 600

\* response.raise_for_status()
RaisesForStatus(status) == status >= 400 /\ status < 600

\* the exception raised between requests.get and the write, "none" if none
FetchError(resp) ==
    IF resp.exc # "none" THEN resp.exc
    ELSE IF RaisesForStatus(resp.status) THEN "HTTPError"
    ELSE IF is_html(resp.content) THEN "ValueError"
    ELSE "none"

\* except (requests.RequestException, ValueError)
Caught(e) == e \in {"ConnectionError", "HTTPError", "ValueError"}

\* open(file_path, 'wb') names a directory: IsADirectoryError
OpenFails(safe_file) == safe_file \in {<<>>, <<".">>, <<".", ".">>}

SafeFile(row) == safe_filename(clean_file_name(row.file_name))

\* file_path relative to base_download_folder
FilePath(row, count) ==
    JoinPath(<<safe_folder_name(row.organization),
               title_folder(count, row.title),
               SafeFile(row)>>)

\* os.makedirs(title_folder_path)
MadeDirs(row, count) ==
    LET p == JoinPath(<<safe_folder_name(row.organization),
                        title_folder(count, row.title)>>)
    IN  {SubSeq(p, 1, k) : k \in 1..Len(p)}

\* download_count += 1
NextDownloadCount(count) == count + 1

\* progress_bar.progress(download_count / total_files): streamlit raises
\* StreamlitAPIException for a float outside [0.0, 1.0]
ProgressRejects(count, total) == count > total

\* f"{url} ... {e}\n" appended to error.log
ErrorLine(url, e) == <<url, <<"download error">>, <<e>>>>

DlInit ==
    /\ manifest \in Manifests
    /\ index = 0
    /\ download_count = InitialDownloadCount
    /\ responses = <<>>
    /\ dirs = {}
    /\ files = {}
    /\ log_log = <<>>
    /\ log_csv = <<>>
    /\ error_log = <<>>
    /\ error_csv = <<>>
    /\ progress = <<>>
    /\ zip_buffer = [returned |-> FALSE, names |-> {}]
    /\ pc = "start"

initialize_logging ==
    /\ pc = "start"
    /\ log_log' = <<<<<<"Download Log">>>>>>
    /\ error_log' = <<<<<<"Error Log">>>>>>
    /\ log_csv' = << <<<<"Index">>, <<"Organization">>, <<"Title">>,
                       <<"File Name">>, <<"URL">>, <<"Status">>, <<"Message">>>> >>
    /\ error_csv' = << <<<<"Index">>, <<"Organization">>, <<"Title">>,
                         <<"File Name">>, <<"URL">>, <<"Error Message">>>> >>
    /\ pc' = "loop"
    /\ UNCHANGED <<san, rs, manifest, index, download_count, responses, dirs, files,
                   progress, zip_buffer>>

CurrentRow == manifest[index + 1]

InLoop == pc = "loop" /\ index < Len(manifest)

\* the row's URL is blank: continue
SkipBlankRow ==
    /\ InLoop
    /\ BlankUrl(CurrentRow.file_download_link)
    /\ index' = index + 1
    /\ responses' = Append(responses, NoRequest)
    /\ UNCHANGED <<san, rs, manifest, download_count, dirs, files, log_log, log_csv,
                   error_log, error_csv, progress, zip_buffer, pc>>

\* the request or the payload check raises an exception the except clause catches
RowFails ==
    /\ InLoop
    /\ ~BlankUrl(CurrentRow.file_download_link)
    /\ CurrentRow.file_name # NaN
    /\ \E resp \in Responses :
        /\ Caught(FetchError(resp))
        /\ responses' = Append(responses, resp)
        /\ error_log' = Append(error_log,
               ErrorLine(CurrentRow.file_download_link, FetchError(resp)))
    /\ dirs' = dirs \cup MadeDirs(CurrentRow, download_count)
    /\ index' = index + 1
    /\ UNCHANGED <<san, rs, manifest, download_count, files, log_log, log_csv,
                   error_csv, progress, zip_buffer, pc>>

\* the payload is written, the counter incremented and the progress reported;
\* a value the progress bar rejects raises out of download_files (line 108)
RowDownloads ==
    /\ InLoop
    /\ ~BlankUrl(CurrentRow.file_download_link)
    /\ CurrentRow.file_name # NaN
    /\ ~OpenFails(SafeFile(CurrentRow))
    /\ \E resp \in Responses :
        /\ FetchError(resp) = "none"
        /\ responses' = Append(responses, resp)
        /\ files' = {f \in files : f.path # FilePath(CurrentRow, download_count)}
                    \cup {[path |-> FilePath(CurrentRow, download_count),
                           content |-> resp.content]}
    /\ dirs' = dirs \cup MadeDirs(CurrentRow, download_count)
    /\ download_count' = NextDownloadCount(download_count)
    /\ IF ProgressRejects(download_count', Len(manifest))
       THEN progress' = progress /\ pc' = "aborted"
       ELSE progress' = Append(progress, <<download_count', Len(manifest)>>) /\ pc' = pc
    /\ index' = index + 1
    /\ UNCHANGED <<san, rs, manifest, log_log, log_csv, error_log, error_csv,
                   zip_buffer>>

\* an exception no except clause catches leaves download_files before the write:
\* TypeError of re.search on a non-string file name (line 80, before makedirs),
\* IsADirectoryError of open (line 98)
RowRaises ==
    /\ InLoop
    /\ ~BlankUrl(CurrentRow.file_download_link)
    /\ \/ /\ CurrentRow.file_name = NaN
          /\ responses' = Append(responses, NoRequest)
          /\ dirs' = dirs
       \/ /\ CurrentRow.file_name # NaN
          /\ OpenFails(SafeFile(CurrentRow))
          /\ \E resp \in Responses :
                /\ FetchError(resp) = "none"
                /\ responses' = Append(responses, resp)
          /\ dirs' = dirs \cup MadeDirs(CurrentRow, download_count)
    /\ index' = index + 1
    /\ pc' = "aborted"
    /\ UNCHANGED <<san, rs, manifest, download_count, files, log_log, log_csv,
                   error_log, error_csv, progress, zip_buffer>>

\* os.walk(base_download_folder) into the zip; return zip_buffer
Archive ==
    /\ pc = "loop"
    /\ index = Len(manifest)
    /\ zip_buffer' = [returned |-> TRUE,
                      names |-> {f.path : f \in files} \cup LogPaths]
    /\ pc' = "done"
    /\ UNCHANGED <<san, rs, manifest, index, download_count, responses, dirs, files,
                   log_log, log_csv, error_log, error_csv, progress>>

SanIdle == [stage |-> "idle", input |-> <<>>, folder |-> <<>>,
            cleaned |-> <<>>, file |-> <<>>]

RsIdle == [pc |-> "idle"]

DlNext ==
    \/ initialize_logging
    \/ SkipBlankRow
    \/ RowFails
    \/ RowDownloads
    \/ RowRaises
    \/ Archive

InitDownloader == DlInit /\ san = SanIdle /\ rs = RsIdle

SpecDownloader == InitDownloader /\ [][DlNext]_vars

(***************************************************************************)
(* deduplicate.py : the sanitizers applied to arbitrary strings.           *)
(***************************************************************************)
SanAlphabet == {"a", ".", "/", " ", "1"}

LongName == [i \in 1..(MaxNameLen + 1) |-> "a"]

SanInputs ==
    UNION {[1..n -> SanAlphabet] : n \in 0..MaxInputLen}
    \cup {LongName, <<".">> \o LongName, LongName \o <<".", "a", " ">>}

SanInit == san \in {[SanIdle EXCEPT !.stage = "input", !.input = s] : s \in SanInputs}

\* safe_folder_name(organization), safe_folder_name(title)
ApplySafeFolderName ==
    /\ san.stage = "input"
    /\ san' = [san EXCEPT !.stage = "folder",
                          !.folder = safe_folder_name(san.input)]
    /\ UNCHANGED <<dlvars, rs>>

\* safe_file = clean_file_name(file_name)
ApplyCleanFileName ==
    /\ san.stage = "folder"
    /\ san' = [san EXCEPT !.stage = "cleaned",
                          !.cleaned = clean_file_name(san.input)]
    /\ UNCHANGED <<dlvars, rs>>

\* safe_file = safe_filename(safe_file)
ApplySafeFilename ==
    /\ san.stage = "cleaned"
    /\ san' = [san EXCEPT !.stage = "file",
                          !.file = safe_filename(san.cleaned)]
    /\ UNCHANGED <<dlvars, rs>>

SanNext ==
    \/ ApplySafeFolderName
    \/ ApplyCleanFileName
    \/ ApplySafeFilename

DlIdle ==
    /\ manifest = <<>>
    /\ index = 0
    /\ download_count = InitialDownloadCount
    /\ responses = <<>>
    /\ dirs = {}
    /\ files = {}
    /\ log_log = <<>>
    /\ log_csv = <<>>
    /\ error_log = <<>>
    /\ error_csv = <<>>
    /\ progress = <<>>
    /\ zip_buffer = [returned |-> FALSE, names |-> {}]
    /\ pc = "idle"

InitSanitizer == SanInit /\ DlIdle /\ rs = RsIdle

SpecSanitizer == InitSanitizer /\ [][SanNext]_vars

(***************************************************************************)
(* undersampling.py : resample_dataset.                                    *)
(***************************************************************************)
\* the label column, named by the two Hangul syllables U+BD84 U+B958
LabelCol == <<"<U+BD84><U+B958>">>
KeyCol == <<"message_tree_id">>
OtherCol == <<"text">>

Labels == {"A", "B"}
SmallKeys == 1..3

TRow(l, k) == [label |-> l, key |-> k]

SmallTables ==
    UNION {[1..n -> {TRow(l, k) : l \in Labels, k \in SmallKeys}] :
             n \in 0..MaxTableRows}

\* label A with 3 groups, label B with 5 groups
GroupedExample ==
    <<TRow("A", 1), TRow("B", 4), TRow("A", 2), TRow("A", 2), TRow("A", 3),
      TRow("B", 5), TRow("B", 6), TRow("B", 7), TRow("B", 8)>>

\* label B with 2 rows, label A with 5 rows
RowExample ==
    <<TRow("B", 3), TRow("A", 1), TRow("A", 2), TRow("A", 1), TRow("B", 3),
      TRow("A", 2), TRow("A", 1)>>

Tables == SmallTables \cup {GroupedExample, RowExample}

\* the ratio as a fraction <<numerator, denominator>>
Ratios == {<<1, 2>>, <<1, 1>>, <<3, 2>>, <<2, 1>>}

Extensions == {".xlsx", ".csv", ".json", ".parquet", ".txt"}

\* the header of the file as read, before df.columns.str.strip()
ColumnSets ==
    { {LabelCol, KeyCol, OtherCol},
      {<<" ">> \o LabelCol, KeyCol \o <<" ">>},
      {LabelCol, OtherCol},
      {KeyCol, OtherCol},
      {OtherCol} }

RsInputSpace ==
            [pc : {"start"},
            ext : Extensions,
            decodable : BOOLEAN,
            columns : ColumnSets,
            table : Tables,
            ratio : Ratios,
            df_resampled : {<<>>},
            error : {"none"},
            output : {[state |-> "absent", rows |-> <<>>],
                      [state |-> "previous", rows |-> <<>>]}]

\* only a .csv file is decoded with a detected encoding
RsInputs == {r \in RsInputSpace : r.ext # ".csv" => r.decodable}

RsInit == rs \in RsInputs

\* math.ceil(n * ratio)
Ceil(n, ratio) == -((-(n * ratio[1])) \div ratio[2])

RECURSIVE SortedSeq(_)
\* the positions of S in the order of the table: a boolean mask keeps row order
SortedSeq(S) ==
    IF S = {} THEN <<>>
    ELSE LET m == CHOOSE x \in S : \A y \in S : x <= y
         IN  <<m>> \o SortedSeq(S \ {m})

\* df[LabelCol].unique()
TableLabels(tbl) == {tbl[i].label : i \in 1..Len(tbl)}

\* df[df[LabelCol] == category]: the positions of the rows of a label
ClassGroup(tbl, l) == {i \in 1..Len(tbl) : tbl[i].label = l}

\* group['message_tree_id'].unique()
UniqueTreeIds(tbl, l) == {tbl[i].key : i \in ClassGroup(tbl, l)}

SetMin(S) == CHOOSE x \in S : \A y \in S : x <= y

\* the cap rounded down instead of up
MaxGroupsFloor(tbl, ratio) ==
    (SetMin({Cardinality(UniqueTreeIds(tbl, l)) : l \in TableLabels(tbl)}) * ratio[1]) \div ratio[2]

\* max_groups = ceil(min_group_count * ratio)
MaxGroups(tbl, ratio) ==
    Ceil(SetMin({Cardinality(UniqueTreeIds(tbl, l)) : l \in TableLabels(tbl)}), ratio)

\* the cap taken from the distinct keys instead of the rows
MaxSamplesByGroups(tbl, ratio) ==
    Ceil(SetMin({Cardinality(UniqueTreeIds(tbl, l)) : l \in TableLabels(tbl)}), ratio)

\* max_samples = ceil(min_class_count * ratio)
MaxSamples(tbl, ratio) ==
    Ceil(SetMin({Cardinality(ClassGroup(tbl, l)) : l \in TableLabels(tbl)}), ratio)

\* the check of the label column alone
RequiredColumnsMissingLabelOnly(columns) == LabelCol \notin columns

\* LabelCol not in df.columns or 'message_tree_id' not in df.columns
RequiredColumnsMissing(columns) == LabelCol \notin columns \/ KeyCol \notin columns

\* the draws np.random.choice(ids, size=k, replace=False) and x.sample(k) can make
Draws(S, k) == {D \in SUBSET S : Cardinality(D) = k}

\* group[group['message_tree_id'].isin(sampled_tree_ids)]
SampledGroup(tbl, l, ids) == {i \in ClassGroup(tbl, l) : tbl[i].key \in ids}

\* lines 22-42: read the file by its extension, strip the column names
LoadDataset ==
    /\ rs.pc = "start"
    /\ rs' = IF rs.ext \notin {".xlsx", ".csv", ".json", ".parquet"}
             THEN [rs EXCEPT !.pc = "error", !.error = "ValueError: unsupported"]
             ELSE IF rs.ext = ".csv" /\ ~rs.decodable
             THEN [rs EXCEPT !.pc = "error", !.error = "ValueError: decode"]
             ELSE [rs EXCEPT !.pc = "loaded",
                             !.columns = {Strip(c) : c \in rs.columns}]
    /\ UNCHANGED <<dlvars, san>>

RECURSIVE FirstAppearance(_)
\* df[LabelCol].unique(): the labels in the order of their first row
FirstAppearance(tbl) ==
    IF tbl = <<>> THEN <<>>
    ELSE LET front == FirstAppearance(SubSeq(tbl, 1, Len(tbl) - 1))
             l == tbl[Len(tbl)].label
         IN  IF \E j \in 1..Len(front) : front[j] = l THEN front ELSE Append(front, l)

\* the label values in the order groupby sorts them
LabelOrder == <<"A", "B">>

\* the group keys of df.groupby(LabelCol)
SortedLabels(tbl) == SelectSeq(LabelOrder, LAMBDA l : l \in TableLabels(tbl))

RECURSIVE Orderings(_)
\* the orders in which x.sample can return the rows S
Orderings(S) ==
    IF S = {} THEN {<<>>}
    ELSE UNION {{<<x>> \o o : o \in Orderings(S \ {x})} : x \in S}

RECURSIVE GroupedSamples(_, _, _)
\* pd.concat(sampled_groups): what the loop of lines 65-72 can collect over the
\* labels ls, label by label, the rows of a label in table order
GroupedSamples(tbl, ls, cap) ==
    IF ls = <<>> THEN {<<>>}
    ELSE LET ids == UniqueTreeIds(tbl, Head(ls))
         IN  {SortedSeq(SampledGroup(tbl, Head(ls), d)) \o rest :
                d \in Draws(ids, Min(Cardinality(ids), cap)),
                rest \in GroupedSamples(tbl, Tail(ls), cap)}

RECURSIVE RowSamples(_, _, _)
\* groupby(LabelCol).apply(x.sample(min(len(x), max_samples))): label by label
\* in sorted order, the rows of a label in any order
RowSamples(tbl, ls, cap) ==
    IF ls = <<>> THEN {<<>>}
    ELSE LET g == ClassGroup(tbl, Head(ls))
         IN  {o \o rest :
                o \in UNION {Orderings(d) : d \in Draws(g, Min(Cardinality(g), cap))},
                rest \in RowSamples(tbl, Tail(ls), cap)}

\* lines 44-82: the grouped policy of .xlsx, .csv and .parquet
ResampleGrouped ==
    /\ rs.pc = "loaded"
    /\ rs.ext # ".json"
    /\ IF RequiredColumnsMissing(rs.columns)
       THEN rs' = [rs EXCEPT !.pc = "error", !.error = "KeyError"]
       ELSE IF rs.table = <<>>
       THEN rs' = [rs EXCEPT !.pc = "error", !.error = "ValueError: min"]
       ELSE \E rows \in GroupedSamples(rs.table, FirstAppearance(rs.table),
                                       MaxGroups(rs.table, rs.ratio)) :
               rs' = [rs EXCEPT !.pc = "sampled", !.df_resampled = rows]
    /\ UNCHANGED <<dlvars, san>>

\* lines 84-99: the row policy of .json
ResampleRows ==
    /\ rs.pc = "loaded"
    /\ rs.ext = ".json"
    /\ IF LabelCol \notin rs.columns
       THEN rs' = [rs EXCEPT !.pc = "error", !.error = "KeyError"]
       ELSE IF rs.table = <<>>
       THEN rs' = [rs EXCEPT !.pc = "error", !.error = "ValueError: ceil"]
       ELSE \E rows \in RowSamples(rs.table, SortedLabels(rs.table),
                                   MaxSamples(rs.table, rs.ratio)) :
               rs' = [rs EXCEPT !.pc = "sampled", !.df_resampled = rows]
    /\ UNCHANGED <<dlvars, san>>

\* lines 101-122: write <name>_resampled<ext>
WriteOutput ==
    /\ rs.pc = "sampled"
    /\ rs' = [rs EXCEPT !.pc = "done",
                        !.output = [state |-> "written", rows |-> rs.df_resampled]]
    /\ UNCHANGED <<dlvars, san>>

RsNext ==
    \/ LoadDataset
    \/ ResampleGrouped
    \/ ResampleRows
    \/ WriteOutput

InitRebalancer == RsInit /\ DlIdle /\ san = SanIdle

SpecRebalancer == InitRebalancer /\ [][RsNext]_vars

(***************************************************************************)
(* Properties of download_files.                                           *)
(***************************************************************************)
\* an HTTP error status, as the specification means it
HttpErrorStatus(s) == s \in 400..599

\* a payload containing '<html' in any letter case
HtmlPayload(c) ==
    \E i \in 1..(Len(c) - 4) :
        /\ c[i] = "<"
        /\ c[i + 1] \in {"h", "H"}
        /\ c[i + 2] \in {"t", "T"}
        /\ c[i + 3] \in {"m", "M"}
        /\ c[i + 4] \in {"l", "L"}

\* row i was requested
Attempted(i) == responses[i].exc # "norequest"

\* row i answered with an error status or an HTML payload
Rejected(i) ==
    /\ responses[i].exc = "none"
    /\ HttpErrorStatus(responses[i].status) \/ HtmlPayload(responses[i].content)

\* row i failed: no answer, or a rejected one
Failed(i) == responses[i].exc = "ConnectionError" \/ Rejected(i)

\* row i raised out of download_files before its file was written
Raised(i) ==
    /\ pc = "aborted"
    /\ i = index
    /\ manifest[i].file_name = NaN \/ OpenFails(SafeFile(manifest[i]))

\* row i was downloaded
Downloaded(i) == Attempted(i) /\ ~Failed(i) /\ ~Raised(i)

DownloadedRows == {i \in 1..index : Downloaded(i)}

\* the number of rows up to i that were downloaded
Rank(i) == Cardinality({j \in DownloadedRows : j <= i})

\* <organization>/<index>_<title>/<filename> of the downloaded row i
ExpectedPath(i) ==
    JoinPath(<<safe_folder_name(manifest[i].organization),
               title_folder(InitialDownloadCount + Rank(i) - 1, manifest[i].title),
               SafeFile(manifest[i])>>)

RECURSIVE ExpectedErrorLines(_)
\* one line per failed row among the first i rows, in row order
ExpectedErrorLines(i) ==
    IF i = 0 THEN <<>>
    ELSE IF Failed(i)
         THEN Append(ExpectedErrorLines(i - 1),
                     <<manifest[i].file_download_link, <<"download error">>,
                       <<IF responses[i].exc = "ConnectionError" THEN "ConnectionError"
                         ELSE IF HttpErrorStatus(responses[i].status) THEN "HTTPError"
                         ELSE "ValueError">>>>)
         ELSE ExpectedErrorLines(i - 1)

\* C1: no failure of a row aborts the batch: whatever happens to a row, every
\* row is consumed and download_files ends by returning the zip buffer.
C1_NoRowFailureAbortsBatch ==
    pc \in {"done", "aborted"} =>
        /\ pc = "done"
        /\ index = Len(manifest)
        /\ zip_buffer.returned

\* C2: a row answered with an HTTP error status or an HTML payload writes no
\* file (the files under the base folder are exactly one per downloaded row and
\* none holds an HTML payload) and has exactly one line in error.log with its
\* URL and the error.
C2_RejectedRowAbsentAndLogged ==
    pc \in {"loop", "done", "aborted"} =>
        /\ Cardinality(files) = Cardinality(DownloadedRows)
        /\ \A f \in files : ~HtmlPayload(f.content)
        /\ SubSeq(error_log, 2, Len(error_log)) = ExpectedErrorLines(index)
        /\ pc = "done" => \A p \in zip_buffer.names \ LogPaths :
                             \E f \in files : f.path = p

C2_Witness ==
    /\ pc = "done"
    /\ \E i, j \in 1..index :
          /\ responses[i].exc = "none" /\ responses[i].status = 404
          /\ responses[j].exc = "none" /\ responses[j].status = 200
          /\ HtmlPayload(responses[j].content)
          /\ Len(error_log) = 3

\* C3: when every row of the manifest has a non-blank URL and is downloaded,
\* download_files returns the archive, which holds the log files and exactly
\* one file per row, the k-th at <organization>/<seed+k>_<title>/<filename>.
C3_ArchiveHasOneFilePerDownloadedRow ==
    (/\ pc \in {"done", "aborted"}
     /\ Len(manifest) >= 1
     /\ \A i \in 1..Len(manifest) : ~BlankUrl(manifest[i].file_download_link)
     /\ \A i \in 1..index : Downloaded(i)) =>
        /\ zip_buffer.returned
        /\ index = Len(manifest)
        /\ zip_buffer.names = LogPaths \cup {ExpectedPath(i) : i \in DownloadedRows}
        /\ Cardinality(zip_buffer.names \ LogPaths) = Len(manifest)

\* C8: every row, downloaded, failed or blank, reports progress once, and
\* every reported value is a fraction within [0, 1] that never decreases.
C8_ProgressAfterEveryRow ==
    pc \in {"done", "aborted"} =>
        /\ Len(progress) = Len(manifest)
        /\ \A k \in 1..Len(progress) :
              0 <= progress[k][1] /\ progress[k][1] <= progress[k][2]
        /\ \A k \in 1..(Len(progress) - 1) : progress[k][1] <= progress[k + 1][1]

\* C9: every attempted row has one record in log.log and in log.csv, and
\* every failed row one record in error.log and in error.csv.
C9_OutcomeRecordedInAllLogs ==
    pc = "done" =>
        LET attempted == Cardinality({i \in 1..index : Attempted(i)})
            failed == Cardinality({i \in 1..index : Failed(i)})
        IN  /\ Len(log_csv) - 1 = attempted
            /\ Len(log_log) - 1 = attempted
            /\ Len(error_log) - 1 = failed
            /\ Len(error_csv) - 1 = failed

(***************************************************************************)
(* Properties of the sanitizers.                                           *)
(***************************************************************************)
SafeName(s, class) ==
    /\ \A i \in 1..Len(s) : s[i] \notin (class \ {"_"})
    /\ s # <<>> => s[1] # "." /\ s[Len(s)] # "."
    /\ Len(s) <= MaxNameLen

\* C7: the folder name and the file name built from any string hold no
\* disallowed character, have no leading or trailing dot and are at most 255
\* characters long.
C7_SanitizersGiveSafeNames ==
    /\ san.stage \in {"folder", "cleaned", "file"} => SafeName(san.folder, FolderClass)
    /\ san.stage = "file" => SafeName(san.file, FileClass)

(***************************************************************************)
(* Properties of resample_dataset.                                         *)
(***************************************************************************)
GroupedRun == rs.pc \in {"sampled", "done"} /\ rs.ext # ".json"

RowRun == rs.pc \in {"sampled", "done"} /\ rs.ext = ".json"

\* the rows of the resampled table; once written, those of the output file
OutRows == IF rs.pc = "done" THEN rs.output.rows ELSE rs.df_resampled

OutSet == {OutRows[j] : j \in 1..Len(OutRows)}

\* the least integer c with c >= n * ratio
CapOf(n) ==
    CHOOSE c \in 0..(n * rs.ratio[1]) :
        /\ c * rs.ratio[2] >= n * rs.ratio[1]
        /\ (c - 1) * rs.ratio[2] < n * rs.ratio[1]

InputLabels == {rs.table[i].label : i \in 1..Len(rs.table)}

RowsOf(l) == {i \in 1..Len(rs.table) : rs.table[i].label = l}

KeysOf(l) == {rs.table[i].key : i \in RowsOf(l)}

GroupCap == CapOf(SetMin({Cardinality(KeysOf(l)) : l \in InputLabels}))

RowCap == CapOf(SetMin({Cardinality(RowsOf(l)) : l \in InputLabels}))

\* C4: under the grouped policy every label keeps exactly
\* min(its distinct key count, cap) distinct keys, with
\* cap = ceil(least distinct key count of a label * ratio).
C4_GroupedCapPerLabel ==
    GroupedRun =>
        \A l \in InputLabels :
            Cardinality({rs.table[i].key : i \in OutSet \cap RowsOf(l)})
                = Min(Cardinality(KeysOf(l)), GroupCap)

C4_Witness ==
    /\ GroupedRun
    /\ rs.pc = "done"
    /\ rs.table = GroupedExample
    /\ rs.ratio = <<1, 1>>
    /\ Cardinality({rs.table[i].key : i \in OutSet \cap RowsOf("B")}) = 3
    /\ Cardinality(KeysOf("B")) = 5

\* C5: under the grouped policy the rows of a grouping key are kept or
\* dropped together, whatever their labels.
C5_GroupKeptOrDroppedWhole ==
    GroupedRun =>
        \A i, j \in 1..Len(rs.table) :
            rs.table[i].key = rs.table[j].key => (i \in OutSet <=> j \in OutSet)

\* C6: under the row policy every label with n rows keeps exactly min(n, cap)
\* rows, cap = ceil(least row count of a label * ratio), each a distinct input
\* row of that label; a label at or below the cap keeps all its rows (A=5, B=2,
\* ratio=2: cap 4, A keeps 4 and B keeps 2, as A=10, B=4 gives 8 and 4).
C6_RowCapPerLabel ==
    RowRun =>
        /\ \A j, k \in 1..Len(OutRows) : j # k => OutRows[j] # OutRows[k]
        /\ OutSet \subseteq 1..Len(rs.table)
        /\ \A l \in InputLabels :
              Cardinality({j \in 1..Len(OutRows) : rs.table[OutRows[j]].label = l})
                  = Min(Cardinality(RowsOf(l)), RowCap)
        /\ (rs.table = RowExample /\ rs.ratio = <<2, 1>>) =>
              /\ Cardinality(OutSet \cap RowsOf("A")) = 4
              /\ Cardinality(OutSet \cap RowsOf("B")) = 2

C6_Witness ==
    /\ RowRun
    /\ rs.pc = "done"
    /\ rs.table = RowExample
    /\ rs.ratio = <<2, 1>>
    /\ Len(OutRows) = 6
    /\ OutRows[1] > OutRows[2]

HasColumn(c) == \E x \in rs.columns : Strip(x) = c

\* an unsupported extension, an undecodable text or a missing required column
BadInput ==
    \/ rs.ext \notin {".xlsx", ".csv", ".json", ".parquet"}
    \/ rs.ext = ".csv" /\ ~rs.decodable
    \/ rs.ext = ".json" /\ ~HasColumn(LabelCol)
    \/ rs.ext # ".json" /\ (~HasColumn(LabelCol) \/ ~HasColumn(KeyCol))

\* C10: with an unsupported extension, an undecodable text or a missing
\* required column the call never gets to sampling or writing: it can only end
\* in the error, and the _resampled file is neither created nor modified.
C10_FailFastNoOutput ==
    /\ BadInput => rs.pc \in {"start", "loaded", "error"} /\ rs.output.state # "written"
    /\ rs.pc = "error" => rs.output.state # "written" /\ rs.df_resampled = <<>>

C10_Witness ==
    /\ rs.pc = "error"
    /\ rs.error = "KeyError"
    /\ rs.ext = ".parquet"
    /\ HasColumn(LabelCol) /\ ~HasColumn(KeyCol)
    /\ rs.output.state = "previous"

====
